---- MODULE Spec2Model ----
(***************************************************************************)
(* Model of js/main/chrome_tabs.js (class ChromeTabs): the tab messenger   *)
(* sendMessage / sendMessageInternal with lazy injection of the default    *)
(* scripts, and playbackDocuments, which replays create/delete documents   *)
(* through PromiseUtils.serial.                                            *)
(*                                                                         *)
(* A promise is a state (pending, "resolved", "rejected") with the value   *)
(* it resolved to or the error it rejected with.  The values the tab       *)
(* answers with are strings: "undefined", "null", "false", "true"; an      *)
(* Error object is represented by its message.                             *)
(***************************************************************************)
EXTENDS Integers, Sequences, FiniteSets, TLC

VARIABLES
  calls,            \* calls[c]: the sendMessage call c (one promise chain)
  trace,            \* messenger: the caller's request, then every
                    \* chrome.tabs.* invocation and callback, in order
  documents,        \* playbackDocuments: the documents argument
  onPlaybackError,  \* playbackDocuments: TRUE iff a callback was supplied
  sum,              \* playbackDocuments: let sum
  thunks,           \* state of each function handed to PromiseUtils.serial
  playback,         \* the promise returned by playbackDocuments
  commands,         \* createHighlight/deleteHighlight invocations, in order
  errorCallbacks,   \* documents passed to onPlaybackError, in order
  comparator,       \* the function returned by getComparisonFunction
  keys,             \* keys[k]: the k-th invocation of that function
  overview          \* the getFormattedOverviewText call

vars == <<calls, trace, documents, onPlaybackError, sum, thunks, playback,
          commands, errorCallbacks, comparator, keys, overview>>

playbackVars == <<documents, onPlaybackError, sum, thunks, playback,
                  commands, errorCallbacks>>

otherVars == <<comparator, keys, overview>>

----------------------------------------------------------------------------
(* Bounds *)

MaxDocs == 3

\* invocations of one comparison function that may overlap
MaxInvocations == 2

Invocations == 1..MaxInvocations

\* the call looked at when one call is followed on its own
Caller == 1

CallIds == 1..MaxDocs

----------------------------------------------------------------------------
(* Static properties of ChromeTabs *)

DEFAULT_SCRIPTS ==
  << "js/main/chrome_storage.js", "js/main/chrome_highlight_storage.js",
     "js/utils.js",
     "js/stylesheet.js",
     "js/content_script/range_utils.js",
     "js/content_script/highlighter.js",
     "js/content_script/content_script.js" >>

MESSAGE_ID ==
  [ CREATE_HIGHLIGHT |-> "create_highlight",
    DELETE_HIGHLIGHT |-> "delete_highlight",
    IS_HIGHLIGHT_IN_DOM |-> "is_highlight_in_dom",
    GET_BOUNDING_CLIENT_RECT |-> "get_bounding_client_rect" ]

----------------------------------------------------------------------------
(* The host: what chrome.tabs.sendMessage / chrome.tabs.executeScript may  *)
(* hand to their callbacks.                                                *)

NoLastError == "none"

\* messages of chrome.runtime.lastError
LastErrorMessages ==
  { "Could not establish connection. Receiving end does not exist.",
    "The message port closed before a response was received." }

LastErrors == {NoLastError} \cup LastErrorMessages

\* the response argument of the chrome.tabs.sendMessage callback
Responses == {"undefined", "null", "false", "true"}

\* the result argument of the chrome.tabs.executeScript callback
InjectionResults == {"undefined"}

\* JavaScript truthiness of a response
Truthy(v) == v \notin {"undefined", "null", "false"}

----------------------------------------------------------------------------
(* Highlight Command Layer: the message each command hands to sendMessage  *)

createHighlightMessage(range, className, highlightId) ==
  [ id |-> MESSAGE_ID.CREATE_HIGHLIGHT,
    range |-> range,
    highlightId |-> highlightId,
    className |-> className ]

deleteHighlightMessage(highlightId) ==
  [ id |-> MESSAGE_ID.DELETE_HIGHLIGHT,
    highlightId |-> highlightId ]

isHighlightInDOMMessage(highlightId) ==
  [ id |-> MESSAGE_ID.IS_HIGHLIGHT_IN_DOM,
    highlightId |-> highlightId ]

getHighlightBoundingClientRectMessage(highlightId) ==
  [ id |-> MESSAGE_ID.GET_BOUNDING_CLIENT_RECT,
    highlightId |-> highlightId ]

\* messages a caller hands to sendMessage in the messenger specification
Messages ==
  { createHighlightMessage("r1", "yellow", "a"),
    deleteHighlightMessage("a"),
    isHighlightInDOMMessage("a") }

----------------------------------------------------------------------------
(* Tab Messenger *)

NoMessage == [id |-> "none"]

IdleCall ==
  [ pc |-> "idle", message |-> NoMessage, executeDefaultScript |-> FALSE,
    file |-> 0, value |-> "none" ]

Settled(call) == call.pc \in {"resolved", "rejected"}

\* sendMessageInternal(message): chrome.tabs.sendMessage is invoked and the
\* promise stays pending until the host runs the callback
sendMessageInternal(call) ==
  [call EXCEPT !.pc = "sendMessageInternal", !.file = 0]

\* executeScript(files[k]) inside PromiseUtils.serial:
\* chrome.tabs.executeScript is invoked for the k-th file
executeScript(call, k) ==
  [call EXCEPT !.pc = "executeScript", !.file = k]

\* executeDefaultScript(): executeScript(DEFAULT_SCRIPTS), the first file of
\* the list is injected first; an empty list goes straight to the delivery
executeDefaultScript(call) ==
  IF Len(DEFAULT_SCRIPTS) = 0
    THEN sendMessageInternal(call)
    ELSE executeScript(call, 1)

\* variant: the option is taken to be set whatever the caller passed
sendMessage_InjectFirst(call, message, option) ==
  executeDefaultScript([call EXCEPT !.message = message,
                                    !.executeDefaultScript = TRUE,
                                    !.value = "none"])

\* sendMessage(message, { executeDefaultScript }): the body up to the first
\* host invocation
sendMessage(call, message, option) ==
  LET c1 == [call EXCEPT !.message = message,
                         !.executeDefaultScript = option,
                         !.value = "none"]
  IN  IF option THEN executeDefaultScript(c1) ELSE sendMessageInternal(c1)

\* variant: `if (response)` in place of `typeof response !== 'undefined'`
sendMessageInternalCallback_Truthy(call, lastError, response) ==
  IF lastError # NoLastError
    THEN [call EXCEPT !.pc = "catch", !.value = lastError]
    ELSE IF Truthy(response)
      THEN [call EXCEPT !.pc = "resolved", !.value = response]
      ELSE [call EXCEPT !.pc = "catch", !.value = "Undefined response"]

\* variant: the response is looked at before chrome.runtime.lastError
sendMessageInternalCallback_ResponseFirst(call, lastError, response) ==
  IF response # "undefined"
    THEN [call EXCEPT !.pc = "resolved", !.value = response]
    ELSE IF lastError # NoLastError
      THEN [call EXCEPT !.pc = "catch", !.value = lastError]
      ELSE [call EXCEPT !.pc = "catch", !.value = "Undefined response"]

\* variant: the final reject(new Error("Undefined response")) is missing
sendMessageInternalCallback_NoReject(call, lastError, response) ==
  IF lastError # NoLastError
    THEN [call EXCEPT !.pc = "catch", !.value = lastError]
    ELSE IF response # "undefined"
      THEN [call EXCEPT !.pc = "resolved", !.value = response]
      ELSE [call EXCEPT !.pc = "pending"]

\* the callback given to chrome.tabs.sendMessage (sendMessageInternal)
sendMessageInternalCallback(call, lastError, response) ==
  IF lastError # NoLastError
    THEN [call EXCEPT !.pc = "catch", !.value = lastError]
    ELSE IF response # "undefined"
      THEN [call EXCEPT !.pc = "resolved", !.value = response]
      ELSE [call EXCEPT !.pc = "catch", !.value = "Undefined response"]

\* variant: only the first file of the list is injected
executeScriptCallback_FirstOnly(call, lastError, result) ==
  IF lastError # NoLastError
    THEN [call EXCEPT !.pc = "catch", !.value = lastError]
    ELSE sendMessageInternal(call)

\* variant: chrome.runtime.lastError is not looked at
executeScriptCallback_IgnoresError(call, lastError, result) ==
  IF call.file < Len(DEFAULT_SCRIPTS)
    THEN executeScript(call, call.file + 1)
    ELSE sendMessageInternal(call)

\* the callback given to chrome.tabs.executeScript (executeScript), followed
\* by the next step of the series or, after the last file, by the delivery
executeScriptCallback(call, lastError, result) ==
  IF lastError # NoLastError
    THEN [call EXCEPT !.pc = "catch", !.value = lastError]
    ELSE IF call.file < Len(DEFAULT_SCRIPTS)
      THEN executeScript(call, call.file + 1)
      ELSE sendMessageInternal(call)

\* variant: the handler retries whether or not the scripts were injected
sendMessageCatch_AlwaysRetry(call) ==
  sendMessage(call, call.message, TRUE)

\* the .catch(e => ...) handler of sendMessage
sendMessageCatch(call) ==
  IF ~call.executeDefaultScript
    THEN sendMessage(call, call.message, TRUE)
    ELSE [call EXCEPT !.pc = "rejected"]

\* ---- actions ----

SendMessage(c, message, option) ==
  /\ calls[c].pc = "idle"
  /\ calls' = [calls EXCEPT ![c] = sendMessage(@, message, option)]

SendMessageInternalCallback(c, lastError, response) ==
  /\ calls[c].pc = "sendMessageInternal"
  /\ calls' = [calls EXCEPT
                 ![c] = sendMessageInternalCallback(@, lastError, response)]

ExecuteScriptCallback(c, lastError, result) ==
  /\ calls[c].pc = "executeScript"
  /\ calls' = [calls EXCEPT
                 ![c] = executeScriptCallback(@, lastError, result)]

SendMessageCatch(c) ==
  /\ calls[c].pc = "catch"
  /\ calls' = [calls EXCEPT ![c] = sendMessageCatch(@)]

----------------------------------------------------------------------------
(* Documents (DB.DOCUMENT) *)

DOCUMENT_VERB == [CREATE |-> "create", DELETE |-> "delete"]

\* documents a caller hands to playbackDocuments: two create documents, a
\* delete document for the first of them, and one with another verb
Documents ==
  { [verb |-> "create", _id |-> "a", range |-> "r1", className |-> "yellow"],
    [verb |-> "create", _id |-> "b", range |-> "r2", className |-> "red"],
    [verb |-> "delete", _id |-> "c", correspondingDocumentId |-> "a"],
    [verb |-> "update", _id |-> "d"] }

\* lists of at most MaxDocs documents, each _id at most once
DocumentLists ==
  { docs \in UNION { [1..n -> Documents] : n \in 0..MaxDocs } :
      \A i, j \in DOMAIN docs : i # j => docs[i]._id # docs[j]._id }

----------------------------------------------------------------------------
(* PromiseUtils.serial: the functions run one at a time in list order, the *)
(* next one only after the previous one's promise resolved; the first      *)
(* rejection rejects the series and no later function runs.                *)

serialReady(th, i) ==
  /\ th[i].state = "waiting"
  /\ \A j \in 1..(i - 1) : th[j].state = "resolved"

serialResolved(th) == \A i \in DOMAIN th : th[i].state = "resolved"

serialRejected(th) == \E i \in DOMAIN th : th[i].state = "rejected"

\* the error the series rejects with
serialError(th) ==
  th[CHOOSE i \in DOMAIN th : th[i].state = "rejected"].error

----------------------------------------------------------------------------
(* playbackDocuments *)

WaitingThunk == [state |-> "waiting", ok |-> "none", error |-> "none"]

\* value: what the promise resolved to; error: what it rejected with
IdlePlayback == [state |-> "idle", value |-> 0, error |-> "none"]

\* variant: documents.map(doc => ...) runs the body itself instead of
\* returning a function for the series to run
thunkReady_Eager(th, i) == th[i].state = "waiting"

\* documents.map(doc => { return () => { ... } }): the body of the i-th
\* function runs when the series calls it
thunkReady(th, i) == serialReady(th, i)

\* variant: sum is changed only by create documents
sumAfter_CreatesOnly(doc, n) ==
  IF doc.verb = DOCUMENT_VERB.CREATE THEN n + 1 ELSE n

\* switch (doc.verb): what the case does to sum
sumAfter(doc, n) ==
  IF doc.verb = DOCUMENT_VERB.CREATE THEN n + 1
  ELSE IF doc.verb = DOCUMENT_VERB.DELETE THEN n - 1
  ELSE n

\* switch (doc.verb): the command the case sends, if any
HasCommand(doc) == doc.verb \in {DOCUMENT_VERB.CREATE, DOCUMENT_VERB.DELETE}

\* variant: deleteHighlight(doc._id)
commandMessage_DeleteOwnId(doc) ==
  IF doc.verb = DOCUMENT_VERB.CREATE
    THEN createHighlightMessage(doc.range, doc.className, doc._id)
    ELSE deleteHighlightMessage(doc._id)

commandMessage(doc) ==
  IF doc.verb = DOCUMENT_VERB.CREATE
    THEN createHighlightMessage(doc.range, doc.className, doc._id)
    ELSE deleteHighlightMessage(doc.correspondingDocumentId)

\* variant: the default case returns Promise.resolve(true)
mainPromise_DefaultTrue(doc, call) ==
  IF HasCommand(doc)
    THEN [ state |-> IF Settled(call) THEN call.pc ELSE "pending",
           value |-> call.value ]
    ELSE [ state |-> "resolved", value |-> "true" ]

\* the "main promise" of a document: the command's promise, or
\* Promise.resolve(false) in the default case
mainPromise(doc, call) ==
  IF HasCommand(doc)
    THEN [ state |-> IF Settled(call) THEN call.pc ELSE "pending",
           value |-> call.value ]
    ELSE [ state |-> "resolved", value |-> "false" ]

\* variant: the callback is called without looking at ok
callsBack_Always(ok, cb) == cb

\* variant: the rejection of the main promise is reported like a false
mainOutcome_Caught(p) ==
  IF p.state = "rejected" THEN [state |-> "resolved", value |-> "false"]
  ELSE p

\* promise.then(ok => ...) has no rejection handler: the outcome of the main
\* promise reaches the wrapper as it is
mainOutcome(p) == p

\* if (!ok && onPlaybackError)
callsBack(ok, cb) == ~Truthy(ok) /\ cb

\* ---- actions ----

PlaybackDocuments(docs, cb) ==
  /\ playback.state = "idle"
  /\ documents' = docs
  /\ onPlaybackError' = cb
  /\ sum' = 0
  /\ thunks' = [i \in DOMAIN docs |-> WaitingThunk]
  /\ playback' = [playback EXCEPT !.state = "pending"]
  /\ UNCHANGED <<calls, trace, commands, errorCallbacks, otherVars>>

\* the function of document i, up to the return of its main promise
RunThunk(i) ==
  /\ playback.state = "pending"
  /\ thunkReady(thunks, i)
  /\ thunks' = [thunks EXCEPT ![i].state = "running"]
  /\ sum' = sumAfter(documents[i], sum)
  /\ IF HasCommand(documents[i])
       THEN /\ commands' = Append(commands,
                 [entry |-> i, message |-> commandMessage(documents[i])])
            /\ calls' = [calls EXCEPT
                 ![i] = sendMessage(IdleCall, commandMessage(documents[i]),
                                    FALSE)]
       ELSE UNCHANGED <<commands, calls>>
  /\ UNCHANGED <<trace, documents, onPlaybackError, playback, errorCallbacks,
                 otherVars>>

\* promise.then(ok => { if (!ok && onPlaybackError) onPlaybackError(doc) })
ThenWrapper(i) ==
  LET p == mainOutcome(mainPromise(documents[i], calls[i])) IN
  /\ thunks[i].state = "running"
  /\ p.state # "pending"
  /\ IF p.state = "resolved"
       THEN /\ thunks' = [thunks EXCEPT ![i].state = "resolved",
                                        ![i].ok = p.value]
            /\ errorCallbacks' =
                 IF callsBack(p.value, onPlaybackError)
                   THEN Append(errorCallbacks,
                               [entry |-> i, doc |-> documents[i]])
                   ELSE errorCallbacks
       ELSE /\ thunks' = [thunks EXCEPT ![i].state = "rejected",
                                        ![i].error = p.value]
            /\ UNCHANGED errorCallbacks
  /\ UNCHANGED <<calls, trace, documents, onPlaybackError, sum, playback,
                 commands, otherVars>>

\* PromiseUtils.serial(...).then(() => sum)
SerialThen ==
  /\ playback.state = "pending"
  /\ serialResolved(thunks)
  /\ playback' = [playback EXCEPT !.state = "resolved", !.value = sum]
  /\ UNCHANGED <<calls, trace, documents, onPlaybackError, sum, thunks,
                 commands, errorCallbacks, otherVars>>

\* the series rejected: .then(() => sum) passes the rejection on
SerialRejects ==
  /\ playback.state = "pending"
  /\ serialRejected(thunks)
  /\ playback' = [playback EXCEPT !.state = "rejected",
                                  !.error = serialError(thunks)]
  /\ UNCHANGED <<calls, trace, documents, onPlaybackError, sum, thunks,
                 commands, errorCallbacks, otherVars>>

\* the messenger steps of the command of document i
CommandStep(i) ==
  /\ \/ \E lastError \in LastErrors, response \in Responses :
          SendMessageInternalCallback(i, lastError, response)
     \/ \E lastError \in LastErrors, result \in InjectionResults :
          ExecuteScriptCallback(i, lastError, result)
     \/ SendMessageCatch(i)
  /\ UNCHANGED <<trace, playbackVars, otherVars>>

----------------------------------------------------------------------------
(* The stores the class reads: highlight definitions and create documents  *)

\* ChromeHighlightStorage: the ordered list under HIGHLIGHT_DEFINITIONS
DefinitionLists ==
  { << [className |-> "yellow", title |-> "Yellow"],
       [className |-> "red", title |-> "Red"] >>,
    << [className |-> "red", title |-> "Red"],
       [className |-> "yellow", title |-> "Yellow"],
       [className |-> "green", title |-> "Green"] >> }

\* create documents of one page, as DB.getMatchingDocuments returns them
Highlights ==
  { [verb |-> "create", _id |-> "a", date |-> 10, className |-> "yellow",
     text |-> "A"],
    [verb |-> "create", _id |-> "b", date |-> 20, className |-> "yellow",
     text |-> "B"],
    [verb |-> "create", _id |-> "c", date |-> 30, className |-> "red",
     text |-> "C"],
    [verb |-> "create", _id |-> "d", date |-> 40, className |-> "blue",
     text |-> "D"] }

\* a JavaScript number, and undefined, as comparable values
Number(n) == [type |-> "number", n |-> n]
Undefined == [type |-> "undefined"]

----------------------------------------------------------------------------
(* getComparisonFunction *)

SortBys == {"time", "location", "style", "color"}

\* no function was asked for yet; map is the Map of the "style" closure,
\* fetches counts the ChromeHighlightStorage.getAll() calls it made
NoComparisonFunction ==
  [ sortby |-> "none", state |-> "none", store |-> << >>, map |-> {},
    fetches |-> 0 ]

IdleKey ==
  [ state |-> "idle", pc |-> "none", doc |-> [_id |-> "none"],
    isInDOM |-> "none", sent |-> << >>, value |-> Undefined,
    error |-> "none" ]

\* Map.prototype.set / get / size, the Map being a set of <<key, value>>
mapSet(map, key, value) ==
  {e \in map : e[1] # key} \cup {<<key, value>>}

mapGet(map, key) ==
  IF \E e \in map : e[1] = key
    THEN Number((CHOOSE e \in map : e[1] = key)[2])
    ELSE Undefined

mapSize(map) == Cardinality(map)

RECURSIVE fillMap(_, _, _)
\* definitions.forEach(({className}, index) => map.set(className, index)),
\* from the element at position i on (index = i - 1)
fillMap(map, definitions, i) ==
  IF i > Len(definitions) THEN map
  ELSE fillMap(mapSet(map, definitions[i].className, i - 1), definitions,
               i + 1)

\* switch (sortby): a function is returned, or "Unknown type" is thrown
getComparisonFunction(sortby, store) ==
  [ NoComparisonFunction EXCEPT
      !.sortby = sortby,
      !.store = store,
      !.state = IF sortby \in {"time", "location", "style"}
                  THEN "returned" ELSE "thrown" ]

\* variant: the key is the time of the call, not the document's date
timeKey_Now(doc) == Number(0)

\* "time": doc => Promise.resolve(doc.date)
timeKey(doc) == Number(doc.date)

\* variant: the bounding rect is asked for whatever the answer was
presenceBranch_NoCheck(isInDOM) == "getHighlightBoundingClientRect"

\* "location": isInDOM ? this.getHighlightBoundingClientRect(doc._id)
\*                     : Promise.reject(new Error())
presenceBranch(isInDOM) ==
  IF Truthy(isInDOM) THEN "getHighlightBoundingClientRect" ELSE "reject"

\* the bounding rects the tab may answer with, next to null
Rects == {"{top: 120}", "{top: 40}"}

RectResponses == {"undefined", "null"} \cup Rects

\* rect => rect.top, for the values a response can be; reading a property
\* of null throws a TypeError
rectTop(rect) ==
  IF rect = "null"
    THEN [state |-> "rejected", value |-> Undefined,
          error |-> "TypeError: Cannot read property 'top' of null"]
  ELSE IF rect = "{top: 120}"
    THEN [state |-> "resolved", value |-> Number(120), error |-> "none"]
  ELSE IF rect = "{top: 40}"
    THEN [state |-> "resolved", value |-> Number(40), error |-> "none"]
  ELSE [state |-> "resolved", value |-> Undefined, error |-> "none"]

\* ---- actions ----

GetComparisonFunction(sortby, store) ==
  /\ comparator.state = "none"
  /\ comparator' = getComparisonFunction(sortby, store)
  /\ UNCHANGED <<calls, trace, playbackVars, keys, overview>>

\* the "time" function is called with doc
TimeComparator(k, doc) ==
  /\ comparator.state = "returned"
  /\ comparator.sortby = "time"
  /\ keys[k].state = "idle"
  /\ keys' = [keys EXCEPT ![k] = [@ EXCEPT !.state = "resolved",
                                           !.doc = doc,
                                           !.value = timeKey(doc)]]
  /\ UNCHANGED <<calls, trace, playbackVars, comparator, overview>>

\* the "location" function is called with doc: isHighlightInDOM(doc._id)
LocationComparator(doc) ==
  /\ comparator.state = "returned"
  /\ comparator.sortby = "location"
  /\ keys[Caller].state = "idle"
  /\ calls' = [calls EXCEPT
        ![Caller] = sendMessage(IdleCall, isHighlightInDOMMessage(doc._id),
                                FALSE)]
  /\ keys' = [keys EXCEPT
        ![Caller] = [@ EXCEPT !.state = "pending",
                              !.pc = "isHighlightInDOM",
                              !.doc = doc,
                              !.sent = << isHighlightInDOMMessage(doc._id) >>]]
  /\ UNCHANGED <<trace, playbackVars, comparator, overview>>

\* the messenger steps of the command the "location" function waits for
LocationStep ==
  /\ keys[Caller].state = "pending"
  /\ \/ \E lastError \in LastErrors,
          response \in (IF keys[Caller].pc = "isHighlightInDOM"
                          THEN Responses ELSE RectResponses) :
          SendMessageInternalCallback(Caller, lastError, response)
     \/ \E lastError \in LastErrors, result \in InjectionResults :
          ExecuteScriptCallback(Caller, lastError, result)
     \/ SendMessageCatch(Caller)
  /\ UNCHANGED <<trace, playbackVars, otherVars>>

\* .then(isInDOM => ...) of the "location" function
LocationPresenceThen ==
  LET call == calls[Caller]
      key == keys[Caller] IN
  /\ key.pc = "isHighlightInDOM"
  /\ Settled(call)
  /\ IF call.pc = "rejected"
       THEN /\ keys' = [keys EXCEPT ![Caller] =
                 [key EXCEPT !.state = "rejected", !.pc = "done",
                             !.error = call.value]]
            /\ UNCHANGED calls
       ELSE IF presenceBranch(call.value) = "reject"
         THEN /\ keys' = [keys EXCEPT ![Caller] =
                   [key EXCEPT !.state = "rejected", !.pc = "done",
                               !.isInDOM = call.value,
                               !.error = "Error"]]
              /\ UNCHANGED calls
         ELSE /\ keys' = [keys EXCEPT ![Caller] =
                   [key EXCEPT
                      !.pc = "getHighlightBoundingClientRect",
                      !.isInDOM = call.value,
                      !.sent = Append(@,
                         getHighlightBoundingClientRectMessage(key.doc._id))]]
              /\ calls' = [calls EXCEPT ![Caller] =
                   sendMessage(IdleCall,
                      getHighlightBoundingClientRectMessage(key.doc._id),
                      FALSE)]
  /\ UNCHANGED <<trace, playbackVars, comparator, overview>>

\* .then(rect => rect.top) of the "location" function
LocationRectThen ==
  LET call == calls[Caller]
      key == keys[Caller] IN
  /\ key.pc = "getHighlightBoundingClientRect"
  /\ Settled(call)
  /\ keys' = [keys EXCEPT ![Caller] =
       IF call.pc = "rejected"
         THEN [key EXCEPT !.state = "rejected", !.pc = "done",
                          !.error = call.value]
         ELSE [key EXCEPT !.state = rectTop(call.value).state,
                          !.pc = "done",
                          !.value = rectTop(call.value).value,
                          !.error = rectTop(call.value).error]]
  /\ UNCHANGED <<calls, trace, playbackVars, comparator, overview>>

\* the "style" function is called with doc
StyleComparator(k, doc) ==
  /\ comparator.state = "returned"
  /\ comparator.sortby = "style"
  /\ keys[k].state = "idle"
  /\ IF mapSize(comparator.map) = 0
       THEN /\ comparator' = [comparator EXCEPT !.fetches = @ + 1]
            /\ keys' = [keys EXCEPT ![k] =
                 [@ EXCEPT !.state = "pending", !.pc = "getAll",
                           !.doc = doc]]
       ELSE /\ keys' = [keys EXCEPT ![k] =
                 [@ EXCEPT !.state = "resolved", !.pc = "done",
                           !.doc = doc,
                           !.value = mapGet(comparator.map, doc.className)]]
            /\ UNCHANGED comparator
  /\ UNCHANGED <<calls, trace, playbackVars, overview>>

\* new ChromeHighlightStorage().getAll() resolved: the two .then handlers
StyleGetAllThen(k) ==
  LET map == fillMap(comparator.map, comparator.store, 1) IN
  /\ keys[k].pc = "getAll"
  /\ comparator' = [comparator EXCEPT !.map = map]
  /\ keys' = [keys EXCEPT ![k] =
       [@ EXCEPT !.state = "resolved", !.pc = "done",
                 !.value = mapGet(map, keys[k].doc.className)]]
  /\ UNCHANGED <<calls, trace, playbackVars, overview>>

----------------------------------------------------------------------------
(* getFormattedOverviewText *)

OVERVIEW_FORMAT ==
  [MARKDOWN |-> "markdown", MARKDOWN_NO_FOOTER |-> "markdown-no-footer"]

\* the format argument: the two known kinds and one the switch does not know
Formats == {OVERVIEW_FORMAT.MARKDOWN, OVERVIEW_FORMAT.MARKDOWN_NO_FOOTER,
            "html"}

\* the comparator argument: left out, or a function from a document to the
\* promise of a comparable value (by date; by class, with ties; one that
\* rejects for document "c", as the location function does for a highlight
\* missing from the DOM)
Comparators == {"undefined", "byDate", "byClass", "rejectsOnC"}

\* what chrome.tabs.get hands to its callback: the tab, or undefined when
\* there is no such tab
NoTab == [id |-> "undefined"]
Tabs == { [id |-> "tab", title |-> "Page", url |-> "http://page/"], NoTab }

\* what DB.getMatchingDocuments resolves to: create documents, each once
HighlightLists ==
  { docs \in UNION { [1..n -> Highlights] : n \in 0..MaxDocs } :
      \A i, j \in DOMAIN docs : i # j => docs[i] # docs[j] }

IdleOverview ==
  [ state |-> "idle", pc |-> "none", format |-> "none",
    comparator |-> "undefined", invert |-> FALSE, tab |-> NoTab,
    titles |-> {}, docs |-> << >>, sorted |-> << >>, final |-> << >>,
    markdown |-> << >>, error |-> "none", requests |-> << >> ]

RECURSIVE titlesOf(_, _, _)
\* for (const d of definitions) titles.set(d.className, d.title)
titlesOf(definitions, i, titles) ==
  IF i > Len(definitions) THEN titles
  ELSE titlesOf(definitions, i + 1,
                mapSet(titles, definitions[i].className,
                       definitions[i].title))

\* ${titles.get(className)} inside the template literal
titleText(titles, className) ==
  IF \E e \in titles : e[1] = className
    THEN (CHOOSE e \in titles : e[1] = className)[2]
    ELSE "undefined"

\* the value a comparator function resolves to for a document, or its
\* rejection
comparatorKey(cmp, doc) ==
  CASE cmp = "byDate" -> [state |-> "resolved", n |-> doc.date]
    [] cmp = "byClass" ->
         [state |-> "resolved",
          n |-> CASE doc.className = "red" -> 0
                  [] doc.className = "yellow" -> 1
                  [] OTHER -> 2]
    [] cmp = "rejectsOnC" ->
         IF doc._id = "c" THEN [state |-> "rejected", n |-> 0]
         ELSE [state |-> "resolved", n |-> doc.date]

\* DB.sortDocuments(docs, comparator): the key of every document is
\* evaluated; a rejected key rejects the sort; otherwise the documents are
\* ordered ascending by key, ties keeping their order
sortDocuments(docs, cmp) ==
  LET n == Len(docs)
      key(i) == comparatorKey(cmp, docs[i])
      before(i, j) == \/ key(i).n < key(j).n
                      \/ key(i).n = key(j).n /\ i < j
      pos(j) == Cardinality({i \in 1..n : before(i, j)}) + 1
  IN IF \E i \in 1..n : key(i).state = "rejected"
       THEN [state |-> "rejected", docs |-> << >>, error |-> "Error"]
       ELSE [state |-> "resolved",
             docs |-> [p \in 1..n |-> docs[CHOOSE j \in 1..n : pos(j) = p]],
             error |-> "none"]

\* comparator && DB.sortDocuments(docs, comparator)
sortRequested(cmp) == cmp # "undefined"

Reverse(seq) == [i \in 1..Len(seq) |-> seq[Len(seq) + 1 - i]]

finalOrder_NoReverse(invert, docs) == docs

\* if (invert) { docs.reverse() }
finalOrder(invert, docs) == IF invert THEN Reverse(docs) ELSE docs

\* let currentClassName (undefined), then currentClassName = className
NoClassName == [defined |-> FALSE]
ClassName(className) == [defined |-> TRUE, className |-> className]

headingNeeded_Always(className, currentClassName) == TRUE

\* className != currentClassName
headingNeeded(className, currentClassName) ==
  \/ ~currentClassName.defined
  \/ currentClassName.className # className

\* the lines of the markdown text, a "\n" of the code ending a line
H1(tab) == [kind |-> "h1", text |-> tab.title, url |-> tab.url]
H2(title) == [kind |-> "h2", text |-> title]
Item(text) == [kind |-> "item", text |-> text]
Blank == [kind |-> "blank"]
Rule == [kind |-> "rule"]
Footer == [kind |-> "footer"]

RECURSIVE markdownItems(_, _, _, _, _)
\* for (const {className, text} of docs) { ... }
markdownItems(docs, i, titles, currentClassName, markdown) ==
  IF i > Len(docs) THEN markdown
  ELSE IF headingNeeded(docs[i].className, currentClassName)
    THEN markdownItems(docs, i + 1, titles, ClassName(docs[i].className),
           markdown \o << Blank, H2(titleText(titles, docs[i].className)),
                          Item(docs[i].text) >>)
    ELSE markdownItems(docs, i + 1, titles, currentClassName,
           markdown \o << Blank, Item(docs[i].text) >>)

\* the markdown cases of the switch, footer included
markdownText(format, tab, titles, docs) ==
  markdownItems(docs, 1, titles, NoClassName, << H1(tab) >>)
    \o (IF format # OVERVIEW_FORMAT.MARKDOWN_NO_FOOTER
          THEN << Blank, Rule, Footer >> ELSE << >>)

formattedText_DefaultResolves(format, tab, titles, docs) ==
  IF format \in {OVERVIEW_FORMAT.MARKDOWN, OVERVIEW_FORMAT.MARKDOWN_NO_FOOTER}
    THEN [state |-> "resolved",
          markdown |-> markdownText(format, tab, titles, docs),
          error |-> "none"]
    ELSE [state |-> "resolved", markdown |-> << >>, error |-> "none"]

\* switch (format): the promise the last reaction returns
formattedText(format, tab, titles, docs) ==
  IF format \in {OVERVIEW_FORMAT.MARKDOWN, OVERVIEW_FORMAT.MARKDOWN_NO_FOOTER}
    THEN [state |-> "resolved",
          markdown |-> markdownText(format, tab, titles, docs),
          error |-> "none"]
    ELSE [state |-> "rejected", markdown |-> << >>,
          error |-> "unknown format"]

\* getFormattedOverviewText(format, comparator, invert): this.get() is called
GetFormattedOverviewText(format, cmp, invert) ==
  /\ overview.state = "idle"
  /\ overview' = [overview EXCEPT
       !.state = "pending", !.pc = "get", !.format = format,
       !.comparator = cmp, !.invert = invert,
       !.requests = << "chrome.tabs.get" >>]
  /\ UNCHANGED <<calls, trace, playbackVars, comparator, keys>>

\* .then(t => { tab = t; return new ChromeHighlightStorage().getAll()... })
GetThen(t) ==
  /\ overview.state = "pending"
  /\ overview.pc = "get"
  /\ overview' = [overview EXCEPT
       !.tab = t, !.pc = "getAll",
       !.requests = @ \o << "ChromeHighlightStorage.getAll" >>]
  /\ UNCHANGED <<calls, trace, playbackVars, comparator, keys>>

\* .then(definitions => { titles.set ...; return new DB()
\* .getMatchingDocuments(DB.formatMatch(tab.url), ...) }): tab.url throws a
\* TypeError when there is no tab
GetAllThen(definitions) ==
  /\ overview.state = "pending"
  /\ overview.pc = "getAll"
  /\ overview' =
       IF overview.tab = NoTab
         THEN [overview EXCEPT
                 !.titles = titlesOf(definitions, 1, overview.titles),
                 !.state = "rejected", !.pc = "done", !.error = "TypeError"]
         ELSE [overview EXCEPT
                 !.titles = titlesOf(definitions, 1, overview.titles),
                 !.pc = "getMatchingDocuments",
                 !.requests = @ \o << "DB.getMatchingDocuments" >>]
  /\ UNCHANGED <<calls, trace, playbackVars, comparator, keys>>

\* .then(docs => (comparator && DB.sortDocuments(docs, comparator))
\*                 || Promise.resolve(docs))
GetMatchingDocumentsThen(docs) ==
  /\ overview.state = "pending"
  /\ overview.pc = "getMatchingDocuments"
  /\ overview' =
       IF sortRequested(overview.comparator)
         THEN [overview EXCEPT
                 !.docs = docs, !.pc = "sortDocuments",
                 !.requests = @ \o << "DB.sortDocuments" >>]
         ELSE [overview EXCEPT
                 !.docs = docs, !.sorted = docs, !.pc = "format"]
  /\ UNCHANGED <<calls, trace, playbackVars, comparator, keys>>

\* the promise of DB.sortDocuments settles; its rejection skips the last
\* reaction and rejects the promise the caller holds
SortDocumentsSettles ==
  /\ overview.state = "pending"
  /\ overview.pc = "sortDocuments"
  /\ LET sorted == sortDocuments(overview.docs, overview.comparator) IN
     overview' =
       IF sorted.state = "rejected"
         THEN [overview EXCEPT
                 !.state = "rejected", !.pc = "done",
                 !.error = sorted.error]
         ELSE [overview EXCEPT !.sorted = sorted.docs, !.pc = "format"]
  /\ UNCHANGED <<calls, trace, playbackVars, comparator, keys>>

\* .then(docs => { if (invert) docs.reverse(); switch (format) ... })
FormatThen ==
  /\ overview.state = "pending"
  /\ overview.pc = "format"
  /\ LET docs == finalOrder(overview.invert, overview.sorted)
         text == formattedText(overview.format, overview.tab,
                               overview.titles, docs)
     IN overview' = [overview EXCEPT
          !.final = docs, !.state = text.state, !.pc = "done",
          !.markdown = text.markdown, !.error = text.error]
  /\ UNCHANGED <<calls, trace, playbackVars, comparator, keys>>

----------------------------------------------------------------------------
(* The messenger on its own: one caller, one sendMessage call.  trace      *)
(* records the caller's request, every chrome.tabs.* invocation made for   *)
(* the call and every callback the host runs, in the order they happen.    *)

\* the chrome.tabs.* invocation a call is waiting on, as a log suffix
HostInvocation(c, call) ==
  IF call.pc = "sendMessageInternal"
    THEN << [c |-> c, kind |-> "call", api |-> "sendMessage",
             message |-> call.message] >>
    ELSE IF call.pc = "executeScript"
      THEN << [c |-> c, kind |-> "call", api |-> "executeScript",
               file |-> DEFAULT_SCRIPTS[call.file]] >>
      ELSE << >>

CallerRequest(c, message, option) ==
  << [c |-> c, kind |-> "request", api |-> "sendMessage",
      message |-> message, executeDefaultScript |-> option] >>

HostCallback(c, api, lastError, response) ==
  << [c |-> c, kind |-> "callback", api |-> api,
      lastError |-> lastError, response |-> response] >>

Init ==
  /\ calls = [c \in CallIds |-> IdleCall]
  /\ trace = << >>
  /\ documents = << >>
  /\ onPlaybackError = FALSE
  /\ sum = 0
  /\ thunks = << >>
  /\ playback = IdlePlayback
  /\ commands = << >>
  /\ errorCallbacks = << >>
  /\ comparator = NoComparisonFunction
  /\ keys = [k \in Invocations |-> IdleKey]
  /\ overview = IdleOverview

CallerSends ==
  \E message \in Messages, option \in BOOLEAN :
    /\ SendMessage(Caller, message, option)
    /\ trace' = trace \o CallerRequest(Caller, message, option)
                      \o HostInvocation(Caller, calls'[Caller])
    /\ UNCHANGED <<playbackVars, otherVars>>

HostAnswersDelivery ==
  \E lastError \in LastErrors, response \in Responses :
    /\ SendMessageInternalCallback(Caller, lastError, response)
    /\ trace' = trace
                    \o HostCallback(Caller, "sendMessage", lastError, response)
                    \o HostInvocation(Caller, calls'[Caller])
    /\ UNCHANGED <<playbackVars, otherVars>>

HostAnswersInjection ==
  \E lastError \in LastErrors, result \in InjectionResults :
    /\ ExecuteScriptCallback(Caller, lastError, result)
    /\ trace' = trace
                    \o HostCallback(Caller, "executeScript", lastError, result)
                    \o HostInvocation(Caller, calls'[Caller])
    /\ UNCHANGED <<playbackVars, otherVars>>

CatchRuns ==
  /\ SendMessageCatch(Caller)
  /\ trace' = trace \o HostInvocation(Caller, calls'[Caller])
  /\ UNCHANGED <<playbackVars, otherVars>>

Next ==
  \/ CallerSends
  \/ HostAnswersDelivery
  \/ HostAnswersInjection
  \/ CatchRuns

Spec == Init /\ [][Next]_vars

\* the host runs every callback it was given, and the promise reactions run
LiveSpec ==
  /\ Spec
  /\ WF_vars(HostAnswersDelivery)
  /\ WF_vars(HostAnswersInjection)
  /\ WF_vars(CatchRuns)

----------------------------------------------------------------------------
(* One comparison function and its invocations *)

ComparatorNext ==
  \/ \E sortby \in SortBys, store \in DefinitionLists :
       GetComparisonFunction(sortby, store)
  \/ \E k \in Invocations, doc \in Highlights : TimeComparator(k, doc)
  \/ \E doc \in Highlights : LocationComparator(doc)
  \/ LocationStep
  \/ LocationPresenceThen
  \/ LocationRectThen
  \/ \E k \in Invocations, doc \in Highlights : StyleComparator(k, doc)
  \/ \E k \in Invocations : StyleGetAllThen(k)

ComparatorSpec == Init /\ [][ComparatorNext]_vars

----------------------------------------------------------------------------
(* One call of getFormattedOverviewText *)

OverviewNext ==
  \/ \E format \in Formats, cmp \in Comparators, invert \in BOOLEAN :
       GetFormattedOverviewText(format, cmp, invert)
  \/ \E t \in Tabs : GetThen(t)
  \/ \E definitions \in DefinitionLists : GetAllThen(definitions)
  \/ \E docs \in HighlightLists : GetMatchingDocumentsThen(docs)
  \/ SortDocumentsSettles
  \/ FormatThen

OverviewSpec == Init /\ [][OverviewNext]_vars

----------------------------------------------------------------------------
(* playbackDocuments with the messenger underneath: one run *)

PlaybackNext ==
  \/ \E docs \in DocumentLists, cb \in BOOLEAN : PlaybackDocuments(docs, cb)
  \/ \E i \in DOMAIN documents : RunThunk(i)
  \/ \E i \in DOMAIN documents : CommandStep(i)
  \/ \E i \in DOMAIN documents : ThenWrapper(i)
  \/ SerialThen
  \/ SerialRejects

PlaybackSpec == Init /\ [][PlaybackNext]_vars

\* the host runs every callback it was given, and the promise reactions run
LivePlaybackSpec ==
  /\ PlaybackSpec
  /\ WF_vars(\E i \in DOMAIN documents : RunThunk(i))
  /\ WF_vars(\E i \in DOMAIN documents : CommandStep(i))
  /\ WF_vars(\E i \in DOMAIN documents : ThenWrapper(i))
  /\ WF_vars(SerialThen)
  /\ WF_vars(SerialRejects)

----------------------------------------------------------------------------
(* Reading the trace *)

Last(seq) == seq[Len(seq)]

IsRequest(e) == e.kind = "request"
IsDeliveryAttempt(e) == e.kind = "call" /\ e.api = "sendMessage"
IsInjection(e) == e.kind = "call" /\ e.api = "executeScript"
IsDeliveryAnswer(e) == e.kind = "callback" /\ e.api = "sendMessage"
IsInjectionAnswer(e) == e.kind = "callback" /\ e.api = "executeScript"

Requests == SelectSeq(trace, IsRequest)
DeliveryAttempts == SelectSeq(trace, IsDeliveryAttempt)
Injections == SelectSeq(trace, IsInjection)
DeliveryAnswers == SelectSeq(trace, IsDeliveryAnswer)

\* number of rounds of default-script injection: each round starts with the
\* first script of the list
InjectionRounds ==
  LET IsFirst(e) == IsInjection(e) /\ e.file = DEFAULT_SCRIPTS[1]
  IN  Len(SelectSeq(trace, IsFirst))

\* the host handed the callback a defined response and no error
DeliveryOK(e) == e.lastError = NoLastError /\ e.response # "undefined"

\* the caller wrote sendMessage(message), leaving the options out
PlainRequest ==
  Len(Requests) = 1 /\ ~Requests[1].executeDefaultScript

TypeOK ==
  /\ \A c \in CallIds :
       /\ calls[c].pc \in {"idle", "sendMessageInternal", "executeScript",
                           "catch", "resolved", "rejected"}
       /\ calls[c].file \in 0..Len(DEFAULT_SCRIPTS)
       /\ calls[c].executeDefaultScript \in BOOLEAN

----------------------------------------------------------------------------
(* Claims about the messenger *)

\* C1: whatever the host answers, one sendMessage call makes at most two
\* delivery attempts and at most one round of default-script injection (so
\* no script is injected twice).
C1_AtMostTwoAttemptsOneInjectionRound ==
  /\ Len(DeliveryAttempts) <= 2
  /\ InjectionRounds <= 1
  /\ Len(Injections) <= Len(DEFAULT_SCRIPTS)

\* the retry failed as well: two attempts, one round, and the call is over
C1_Witness ==
  /\ calls[Caller].pc = "rejected"
  /\ Len(DeliveryAttempts) = 2
  /\ InjectionRounds = 1

C3_ResolvesWithLastResponse ==
  /\ (calls[Caller].pc = "resolved") <=>
        (Len(DeliveryAnswers) > 0 /\ DeliveryOK(Last(DeliveryAnswers)))
  /\ calls[Caller].pc = "resolved" =>
        calls[Caller].value = Last(DeliveryAnswers).response
  /\ \A i \in 1..Len(DeliveryAttempts) :
        DeliveryAttempts[i].message = Requests[1].message

\* resolved with false by the retry, after the injection
C3_Witness ==
  /\ calls[Caller].pc = "resolved"
  /\ Len(DeliveryAttempts) = 2
  /\ Len(Injections) = Len(DEFAULT_SCRIPTS)
  /\ calls[Caller].value = "false"

\* the error sendMessageInternal builds from one answer of the host
AnswerError(e) ==
  IF e.lastError # NoLastError THEN e.lastError ELSE "Undefined response"

\* C4: when the delivery made after the injection fails, the call does not
\* resolve and rejects with the error of that delivery: the host's message
\* when the host reported an error (whatever the response), "Undefined
\* response" when the response was undefined and there was no host error.
C4_RejectsWithRetryError ==
  (/\ Len(trace) > 0
   /\ IsDeliveryAnswer(Last(trace))
   /\ ~DeliveryOK(Last(trace))
   /\ Len(Injections) > 0) =>
      /\ calls[Caller].pc \in {"catch", "rejected"}
      /\ calls[Caller].value = AnswerError(Last(trace))

\* rejected with the retry's host error, which differs from the first
\* attempt's, although the retry's response was defined
C4_Witness ==
  /\ calls[Caller].pc = "rejected"
  /\ Len(DeliveryAnswers) = 2
  /\ DeliveryAnswers[2].lastError # NoLastError
  /\ DeliveryAnswers[2].response = "true"
  /\ AnswerError(DeliveryAnswers[1]) # AnswerError(DeliveryAnswers[2])
  /\ calls[Caller].value = DeliveryAnswers[2].lastError

\* C5: every sendMessage call that was made is eventually resolved or
\* rejected, and once settled its state and value never change again.
C5_EveryCallSettlesOnce ==
  /\ [](calls[Caller].pc # "idle" => <>Settled(calls[Caller]))
  /\ [][Settled(calls[Caller]) => calls'[Caller] = calls[Caller]]_vars

\* settled after the whole recovery path: injection of every script, retry
C5_Witness ==
  /\ Settled(calls[Caller])
  /\ Len(Injections) = Len(DEFAULT_SCRIPTS)
  /\ Len(DeliveryAnswers) = 2

----------------------------------------------------------------------------
(* Claims about playbackDocuments *)

Entries == DOMAIN documents

\* the function of entry i has been called by the series
Started(i) == thunks[i].state # "waiting"

\* the command of entry i was sent and has not settled
InFlight(i) == calls[i].pc \notin {"idle", "resolved", "rejected"}

CountVerb(verb, S) == Cardinality({i \in S : documents[i].verb = verb})

\* create entries minus delete entries among the entries of S
NetCount(S) ==
  CountVerb(DOCUMENT_VERB.CREATE, S) - CountVerb(DOCUMENT_VERB.DELETE, S)

CommandsOf(i) ==
  LET IsOf(e) == e.entry = i IN SelectSeq(commands, IsOf)

CallbacksOf(i) ==
  LET IsOf(e) == e.entry = i IN SelectSeq(errorCallbacks, IsOf)

\* C6: when playbackDocuments resolves (every command resolved, to true or to
\* a falsy value), it resolves to the number of create entries minus the
\* number of delete entries; for the empty list it resolves to 0 and no
\* command is issued.
C6_ResolvesToCreatesMinusDeletes ==
  /\ playback.state = "resolved" =>
       /\ playback.value = NetCount(Entries)
       /\ \A i \in Entries : thunks[i].state = "resolved"
  /\ (playback.state # "idle" /\ Len(documents) = 0) =>
       /\ commands = << >>
       /\ \A c \in CallIds : calls[c].pc = "idle"
       /\ playback.state = "resolved" => playback.value = 0

\* two creates and a delete, one command answered false and one true: 1
C6_Witness ==
  /\ playback.state = "resolved"
  /\ Len(documents) = 3
  /\ playback.value = 1
  /\ \A i \in Entries : HasCommand(documents[i])
  /\ \E i, j \in Entries : thunks[i].ok = "false" /\ thunks[j].ok = "true"

\* the empty list: resolved to 0 with nothing sent
C6_WitnessEmpty ==
  /\ playback.state = "resolved"
  /\ Len(documents) = 0
  /\ playback.value = 0
  /\ commands = << >>

\* C7: within one run the commands are issued in the order of their entries,
\* at most one command is in flight at any moment, and the command of a
\* later entry is issued only after the command of every earlier entry has
\* settled.
C7_CommandsInOrderOneAtATime ==
  /\ Cardinality({i \in Entries : InFlight(i)}) <= 1
  /\ \A k \in 1..(Len(commands) - 1) :
       commands[k].entry < commands[k + 1].entry
  /\ \A i, j \in Entries :
       (i < j /\ Started(j)) =>
          /\ thunks[i].state = "resolved"
          /\ HasCommand(documents[i]) => Settled(calls[i])

\* the second command is in flight after the first one resolved
C7_Witness ==
  /\ Len(commands) = 2
  /\ commands[1].entry = 1
  /\ commands[2].entry = 2
  /\ calls[1].pc = "resolved"
  /\ InFlight(2)

\* C8: when the command of entry k rejects, the playback promise rejects
\* (with that error) and never resolves to a count, and no command is issued
\* for an entry after k.
C8_RejectionAbortsPlayback ==
  /\ [](\A k \in Entries :
          calls[k].pc = "rejected" =>
             /\ playback.state \in {"pending", "rejected"}
             /\ playback.state = "rejected" =>
                  playback.error = calls[k].value
             /\ \A j \in Entries :
                  j > k => /\ ~Started(j)
                           /\ calls[j].pc = "idle"
                           /\ CommandsOf(j) = << >>)
  /\ \A k \in CallIds :
       (calls[k].pc = "rejected") ~> (playback.state = "rejected")

\* the command of entry 2 rejected, entry 3 was never attempted
C8_Witness ==
  /\ Len(documents) = 3
  /\ calls[1].pc = "resolved"
  /\ calls[2].pc = "rejected"
  /\ playback.state = "rejected"
  /\ playback.error = calls[2].value
  /\ ~Started(3)
  /\ HasCommand(documents[3])

\* C9: for an entry with a command (create or delete), the callback is
\* invoked exactly once, with that entry, when the command resolved to a
\* falsy value and a callback was supplied, and not at all otherwise; the
\* entry is counted whatever its command resolved to, and a falsy result
\* does not stop the run: the entry's step resolves and the run resolves only
\* after every entry was processed.
C9_CallbackOncePerFalsyResult ==
  /\ \A i \in Entries :
       HasCommand(documents[i]) =>
          /\ Len(CallbacksOf(i)) =
               (IF /\ thunks[i].state = "resolved"
                   /\ ~Truthy(thunks[i].ok)
                   /\ onPlaybackError
                  THEN 1 ELSE 0)
          /\ \A k \in 1..Len(CallbacksOf(i)) :
               CallbacksOf(i)[k].doc = documents[i]
          /\ thunks[i].state = "resolved" =>
               /\ calls[i].pc = "resolved"
               /\ thunks[i].ok = calls[i].value
          /\ (calls[i].pc = "resolved" /\ thunks[i].state # "running") =>
               thunks[i].state = "resolved"
  /\ playback.state # "idle" => sum = NetCount({i \in Entries : Started(i)})
  /\ playback.state = "resolved" =>
       \A i \in Entries : thunks[i].state = "resolved"

\* the create of entry 1 resolved false: called back once with entry 1, the
\* counter went up by one and the command of entry 2 was issued
C9_Witness ==
  /\ onPlaybackError
  /\ Len(documents) >= 2
  /\ documents[1].verb = DOCUMENT_VERB.CREATE
  /\ calls[1].pc = "resolved"
  /\ calls[1].value = "false"
  /\ errorCallbacks = << [entry |-> 1, doc |-> documents[1]] >>
  /\ HasCommand(documents[2])
  /\ InFlight(2)
  /\ sum = NetCount({1, 2})

\* C10, as stated: an entry whose verb is neither create nor delete sends no
\* command, leaves the counter alone and resolves true, so that the callback
\* is not invoked for it.
C10_UnknownVerbResolvesTrue ==
  \A i \in Entries :
    (~HasCommand(documents[i]) /\ thunks[i].state = "resolved") =>
       /\ CommandsOf(i) = << >>
       /\ thunks[i].ok = "true"
       /\ CallbacksOf(i) = << >>

\* C10, amended: an entry whose verb is neither create nor delete sends no
\* command and leaves the counter alone; its operation resolves false, so
\* the callback, when one was supplied, is invoked once with that entry; its
\* step never rejects, so the following entries are processed.
C10_UnknownVerbResolvesFalse ==
  /\ \A i \in Entries :
       ~HasCommand(documents[i]) =>
          /\ CommandsOf(i) = << >>
          /\ calls[i].pc = "idle"
          /\ thunks[i].state # "rejected"
          /\ thunks[i].state = "resolved" => thunks[i].ok = "false"
          /\ CallbacksOf(i) =
               (IF thunks[i].state = "resolved" /\ onPlaybackError
                  THEN << [entry |-> i, doc |-> documents[i]] >>
                  ELSE << >>)
  /\ playback.state # "idle" =>
       sum = NetCount({i \in Entries : Started(i) /\ HasCommand(documents[i])})

\* entry 1 has the verb "update": called back with it, counter still 0 after
\* it, and the command of entry 2 was issued
C10_Witness ==
  /\ onPlaybackError
  /\ Len(documents) >= 2
  /\ ~HasCommand(documents[1])
  /\ thunks[1].state = "resolved"
  /\ errorCallbacks = << [entry |-> 1, doc |-> documents[1]] >>
  /\ HasCommand(documents[2])
  /\ InFlight(2)
  /\ CommandsOf(1) = << >>

----------------------------------------------------------------------------
(* Claims about the injection of the default scripts *)

\* the files injected so far, in the order of their injection
InjectedFiles == [i \in 1..Len(Injections) |-> Injections[i].file]

\* C17: the default scripts are injected in the order of DEFAULT_SCRIPTS,
\* one at a time: a script other than the first is injected right after the
\* host reported the previous injection complete without error, nothing else
\* is invoked while an injection is outstanding, and a delivery that follows
\* an injection is attempted only after the last script of the list was
\* reported complete.
C17_ScriptsInOrderThenRetry ==
  /\ Len(Injections) <= Len(DEFAULT_SCRIPTS)
  /\ InjectedFiles = SubSeq(DEFAULT_SCRIPTS, 1, Len(Injections))
  /\ \A i \in 1..Len(trace) :
       /\ (IsInjection(trace[i]) /\ trace[i].file # DEFAULT_SCRIPTS[1]) =>
            /\ IsInjectionAnswer(trace[i - 1])
            /\ trace[i - 1].lastError = NoLastError
       /\ (IsInjection(trace[i]) /\ i < Len(trace)) =>
            IsInjectionAnswer(trace[i + 1])
       /\ (IsDeliveryAttempt(trace[i]) /\ Len(Injections) > 0
             /\ \E j \in 1..i : IsInjection(trace[j])) =>
            /\ IsInjectionAnswer(trace[i - 1])
            /\ trace[i - 1].lastError = NoLastError
            /\ IsInjection(trace[i - 2])
            /\ trace[i - 2].file = DEFAULT_SCRIPTS[Len(DEFAULT_SCRIPTS)]
            /\ Len(SelectSeq(SubSeq(trace, 1, i), IsInjection))
                 = Len(DEFAULT_SCRIPTS)

\* the retry has just been sent, after all the scripts were injected
C17_Witness ==
  /\ PlainRequest
  /\ InjectedFiles = DEFAULT_SCRIPTS
  /\ Len(DeliveryAttempts) = 2
  /\ IsDeliveryAttempt(Last(trace))

\* C18: when the host reports an error for the injection of a script, nothing
\* is invoked afterwards (no later script, no delivery), the call does not
\* resolve and rejects with the error of that injection; a call
\* sendMessage(message) has then made one delivery attempt in all.
C18_InjectionFailureRejects ==
  \A i \in 1..Len(trace) :
    (IsInjectionAnswer(trace[i]) /\ trace[i].lastError # NoLastError) =>
       /\ i = Len(trace)
       /\ calls[Caller].pc \in {"catch", "rejected"}
       /\ calls[Caller].value = trace[i].lastError
       /\ Len(DeliveryAttempts) = (IF PlainRequest THEN 1 ELSE 0)

\* the third script failed with an error other than the first attempt's
C18_Witness ==
  /\ PlainRequest
  /\ calls[Caller].pc = "rejected"
  /\ Len(Injections) = 3
  /\ Len(DeliveryAnswers) = 1
  /\ IsInjectionAnswer(Last(trace))
  /\ AnswerError(DeliveryAnswers[1]) # Last(trace).lastError
  /\ calls[Caller].value = Last(trace).lastError

----------------------------------------------------------------------------
(* More claims about playbackDocuments *)

\* the entries the callback was invoked for, in the order of the invocations
CallbackEntries == [k \in 1..Len(errorCallbacks) |-> errorCallbacks[k].entry]

\* C19: the callback for entry i is invoked after the command of entry i
\* settled and before the function of any later entry has run (so before the
\* command of entry i+1 is issued); the callbacks come in input order.
C19_CallbackBetweenCommands ==
  /\ [](\A k \in 1..(Len(errorCallbacks) - 1) :
          CallbackEntries[k] < CallbackEntries[k + 1])
  /\ [][errorCallbacks' # errorCallbacks =>
          LET i == Last(errorCallbacks').entry IN
          /\ errorCallbacks' = Append(errorCallbacks, Last(errorCallbacks'))
          /\ HasCommand(documents[i]) => calls[i].pc = "resolved"
          /\ \A j \in Entries :
               j > i => /\ ~Started(j) /\ calls[j].pc = "idle"
                        /\ thunks'[j].state = "waiting"
                        /\ calls'[j].pc = "idle"
          /\ commands' = commands]_vars

\* two commands resolved falsy: called back for entry 1, then for entry 2
C19_Witness ==
  /\ Len(documents) >= 2
  /\ HasCommand(documents[1])
  /\ HasCommand(documents[2])
  /\ CallbackEntries = << 1, 2 >>
  /\ Len(commands) = 2

\* C20: one command is issued for each create or delete entry whose function
\* has run and none for another entry; for a create entry it is
\* create_highlight with the entry's own _id, range and className, for a
\* delete entry it is delete_highlight with the entry's
\* correspondingDocumentId and not the entry's own _id; that message is the
\* one handed to sendMessage.
C20_OneCommandPerEntry ==
  \A i \in Entries :
    LET doc == documents[i] IN
    /\ Len(CommandsOf(i)) = (IF Started(i) /\ HasCommand(doc) THEN 1 ELSE 0)
    /\ \A k \in 1..Len(CommandsOf(i)) :
         LET m == CommandsOf(i)[k].message IN
         /\ calls[i].message = m
         /\ doc.verb = DOCUMENT_VERB.CREATE =>
              m = [ id |-> "create_highlight", range |-> doc.range,
                    highlightId |-> doc._id, className |-> doc.className ]
         /\ doc.verb = DOCUMENT_VERB.DELETE =>
              /\ m = [ id |-> "delete_highlight",
                       highlightId |-> doc.correspondingDocumentId ]
              /\ m.highlightId # doc._id
    /\ (~HasCommand(doc) \/ ~Started(i)) => calls[i].pc = "idle"

\* a create, a delete of it and an entry with another verb were played back
C20_Witness ==
  /\ playback.state = "resolved"
  /\ Len(documents) = 3
  /\ Len(commands) = 2
  /\ \E i, j, k \in Entries :
       /\ documents[i].verb = DOCUMENT_VERB.CREATE
       /\ documents[j].verb = DOCUMENT_VERB.DELETE
       /\ documents[j].correspondingDocumentId = documents[i]._id
       /\ ~HasCommand(documents[k])

----------------------------------------------------------------------------
(* Claims about getComparisonFunction *)

\* C11: over the lifetime of a function returned for "style", the style
\* definitions are fetched exactly once, however many invocations there are
\* and however they overlap.
C11_StyleFetchedOnce ==
  comparator.sortby = "style" =>
    comparator.fetches =
      (IF \E k \in Invocations : keys[k].state # "idle" THEN 1 ELSE 0)

\* C12: for a function returned for "location", when the presence query is
\* answered with false (or another falsy value) the promise is rejected and
\* the only message sent is the presence query; the bounding rect is asked
\* for only after a truthy answer.
C12_AbsentHighlightRejects ==
  comparator.sortby = "location" =>
    LET key == keys[Caller] IN
    /\ (key.isInDOM # "none" /\ ~Truthy(key.isInDOM)) =>
         /\ key.state = "rejected"
         /\ key.sent = << [ id |-> "is_highlight_in_dom",
                            highlightId |-> key.doc._id ] >>
         /\ calls[Caller].message.id = "is_highlight_in_dom"
    /\ (Len(key.sent) > 1 \/ key.pc = "getHighlightBoundingClientRect") =>
         Truthy(key.isInDOM)

\* the tab answered false to the presence query: rejected, one message sent
C12_Witness ==
  /\ comparator.sortby = "location"
  /\ calls[Caller].pc = "resolved"
  /\ calls[Caller].value = "false"
  /\ keys[Caller].isInDOM = "false"
  /\ keys[Caller].state = "rejected"
  /\ Len(keys[Caller].sent) = 1

\* C13: a function returned for "time" resolves at once to the date stored
\* in the document, sends no message to the tab, injects nothing and fetches
\* nothing.
C13_TimeKeyIsStoredDate ==
  comparator.sortby = "time" =>
    /\ \A k \in Invocations :
         /\ keys[k].state \in {"idle", "resolved"}
         /\ keys[k].sent = << >>
         /\ keys[k].state = "resolved" =>
              keys[k].value = [type |-> "number", n |-> keys[k].doc.date]
    /\ \A c \in CallIds : calls[c].pc = "idle"
    /\ trace = << >>
    /\ comparator.fetches = 0

\* two documents with different dates were given their keys
C13_Witness ==
  /\ comparator.sortby = "time"
  /\ keys[1].state = "resolved"
  /\ keys[2].state = "resolved"
  /\ keys[1].value = [type |-> "number", n |-> 10]
  /\ keys[2].value = [type |-> "number", n |-> 30]

----------------------------------------------------------------------------
(* Claims about getFormattedOverviewText *)

UnknownFormat ==
  /\ overview.state # "idle"
  /\ overview.format \notin
       {OVERVIEW_FORMAT.MARKDOWN, OVERVIEW_FORMAT.MARKDOWN_NO_FOOTER}

\* the requests made when the last reaction, which holds the switch, runs
RequestsBeforeFormat ==
  << "chrome.tabs.get", "ChromeHighlightStorage.getAll",
     "DB.getMatchingDocuments" >>
    \o (IF sortRequested(overview.comparator)
          THEN << "DB.sortDocuments" >> ELSE << >>)

\* C14 as stated: a call with an unknown format is rejected with "unknown
\* format" at once, before the tab, the definitions or the documents are
\* asked for, whatever the documents, comparator and invert flag.
C14_UnknownFormatImmediate ==
  UnknownFormat =>
    /\ overview.state = "rejected"
    /\ overview.error = "unknown format"
    /\ overview.requests = << >>

\* C14: a call with an unknown format never resolves and produces no text.
\* The format is looked at last: the "unknown format" rejection comes after
\* the tab, the definitions and the documents were fetched and the sort, if
\* one was asked for, has resolved; a rejection of an earlier step (no tab,
\* a comparator that rejects) is what the caller gets instead.
C14_UnknownFormatRejectsLast ==
  UnknownFormat =>
    /\ overview.state \in {"pending", "rejected"}
    /\ overview.markdown = << >>
    /\ overview.state = "rejected" =>
         \/ /\ overview.error = "unknown format"
            /\ overview.requests = RequestsBeforeFormat
            /\ overview.tab # NoTab
         \/ /\ overview.error = "TypeError"
            /\ overview.tab = NoTab
            /\ overview.requests =
                 << "chrome.tabs.get", "ChromeHighlightStorage.getAll" >>
         \/ /\ overview.error = "Error"
            /\ sortDocuments(overview.docs, overview.comparator).state
                 = "rejected"
    /\ (overview.state = "pending" /\ overview.pc = "format") =>
         overview.requests = RequestsBeforeFormat

\* an unknown format was rejected after two documents were fetched and
\* sorted
C14_Witness ==
  /\ UnknownFormat
  /\ overview.state = "rejected"
  /\ overview.error = "unknown format"
  /\ overview.comparator = "byClass"
  /\ Len(overview.sorted) = 2
  /\ overview.sorted # overview.docs

Markdown ==
  /\ overview.state = "resolved"
  /\ overview.format \in
       {OVERVIEW_FORMAT.MARKDOWN, OVERVIEW_FORMAT.MARKDOWN_NO_FOOTER}

\* the positions of the lines of one kind in the text
LinesOf(kind) ==
  SelectSeq([i \in 1..Len(overview.markdown) |-> i],
            LAMBDA i : overview.markdown[i].kind = kind)

\* entry i of the final order starts a run of equal class names
StartsRun(i) ==
  \/ i = 1
  \/ overview.final[i].className # overview.final[i - 1].className

\* C15: in the markdown text there is one list item per entry, in the final
\* order; an entry that is first or whose className differs from the
\* previous entry's has its subheading (a blank line, then the title of its
\* class) right above its item, and every other entry has only a blank line
\* between the previous entry's item and its own; so there are as many
\* subheadings as runs of equal class names.
C15_SubheadingPerRun ==
  Markdown =>
    LET lines == overview.markdown
        final == overview.final
        items == LinesOf("item")
    IN /\ Len(items) = Len(final)
       /\ Len(LinesOf("h2")) =
            Cardinality({i \in 1..Len(final) : StartsRun(i)})
       /\ \A i \in 1..Len(final) :
            /\ lines[items[i]] = Item(final[i].text)
            /\ IF StartsRun(i)
                 THEN /\ lines[items[i] - 1] =
                           H2(titleText(overview.titles, final[i].className))
                      /\ lines[items[i] - 2] = Blank
                 ELSE /\ lines[items[i] - 1] = Blank
                      /\ items[i] - 2 = items[i - 1]

\* three entries in two runs: the first two share a subheading
C15_Witness ==
  /\ Markdown
  /\ Len(overview.final) = 3
  /\ overview.final[1].className = overview.final[2].className
  /\ overview.final[3].className # overview.final[2].className
  /\ Len(LinesOf("h2")) = 2

\* the texts of the list items of a markdown text, top to bottom
ListItems(markdown) ==
  LET items == SelectSeq(markdown, LAMBDA line : line.kind = "item")
  IN [i \in 1..Len(items) |-> items[i].text]

Texts(docs) == [i \in 1..Len(docs) |-> docs[i].text]

\* the text rendered from the state's documents in sorted order with the
\* given invert flag
RenderedWith(invert) ==
  markdownText(overview.format, overview.tab, overview.titles,
               finalOrder(invert, overview.sorted))

\* C16: the list items rendered with invert are those rendered without it in
\* reverse, for the same fetched documents and comparator; the text the call
\* resolved to is the one for its own flag; and without comparator and
\* without invert the items are in the order the documents were fetched in.
C16_InvertReverses ==
  Markdown =>
    /\ ListItems(RenderedWith(TRUE)) = Reverse(ListItems(RenderedWith(FALSE)))
    /\ overview.markdown = RenderedWith(overview.invert)
    /\ ListItems(overview.markdown) =
         (IF overview.invert THEN Reverse(Texts(overview.sorted))
          ELSE Texts(overview.sorted))
    /\ ~sortRequested(overview.comparator) => overview.sorted = overview.docs
    /\ (~sortRequested(overview.comparator) /\ ~overview.invert) =>
         ListItems(overview.markdown) = Texts(overview.docs)

\* three documents sorted by a comparator and rendered inverted
C16_Witness ==
  /\ Markdown
  /\ overview.invert
  /\ overview.comparator = "byDate"
  /\ Len(overview.docs) = 3
  /\ overview.sorted # overview.docs
  /\ ListItems(overview.markdown) = Reverse(Texts(overview.sorted))

----------------------------------------------------------------------------
(* The "location" function when the highlight is in the DOM *)

\* what the tab answered to the bounding rect request, once the messenger
\* has resolved with it and the last reaction of the function has run
RectAnswered ==
  /\ comparator.sortby = "location"
  /\ keys[Caller].pc = "done"
  /\ keys[Caller].isInDOM = "true"
  /\ calls[Caller].pc = "resolved"

\* C21: for a function returned for "location", once the presence query is
\* answered true the bounding rect is asked for, after the presence query
\* and for the same highlight, and the promise resolves to the top
\* coordinate of whatever the rect request is answered with, a rect or null.
C21_PresentResolvesToTop ==
  (comparator.sortby = "location" /\ keys[Caller].isInDOM = "true") =>
    LET key == keys[Caller] IN
    /\ key.sent = << [ id |-> "is_highlight_in_dom",
                       highlightId |-> key.doc._id ],
                     [ id |-> "get_bounding_client_rect",
                       highlightId |-> key.doc._id ] >>
    /\ RectAnswered =>
         /\ key.state = "resolved"
         /\ calls[Caller].value = "{top: 120}" =>
              key.value = [type |-> "number", n |-> 120]
         /\ calls[Caller].value = "{top: 40}" =>
              key.value = [type |-> "number", n |-> 40]

====
